---- MODULE Spec2Model ----
(***************************************************************************)
(* Model of bloomparse-gui (src/src/main.rs): the Apple Health export is   *)
(* scanned for self-closing Record elements of the mindful-session type,   *)
(* each raw record is resolved into a BloomRecord (minutes + dropped       *)
(* seconds), the records are written as CSV and tallied per app.           *)
(***************************************************************************)
EXTENDS Integers, Sequences, FiniteSets, TLC

\* Longest document (number of structural events before end-of-stream).
MaxLen == 3

\* i32::MAX, the target of `.try_into()` at main.rs:106.
I32Max == 2147483647
I32Min == -I32Max - 1

VARIABLES
    pc,            \* position of the run inside main / apple_health
    doc,           \* the structural events of the chosen file, Eof implicit at the end
    pos,           \* index of the next event read_event_into returns
    eof,           \* the reader has returned Event::Eof
    user_data,     \* Vec<MindfulSession>
    ridx,          \* index of the next element of `for record in user_data`
    bloom_data,    \* Vec<BloomRecord>
    saveRequested, \* save_file_dialog has been shown
    filename,      \* result of write_csv ("" before it returns)
    fileCreated,   \* csv::Writer::from_path has created the output file
    csv,           \* the lines handed to the csv writer, header included
    widx,          \* index of the next element of `for record in bloom_data`
    stats,         \* the summary lines produced by calculate_stats
    notice,        \* the closing message box of the run
    failure        \* the fatal condition the run has hit

vars == <<pc, doc, pos, eof, user_data, ridx, bloom_data, saveRequested, filename,
          fileCreated, csv, widx, stats, notice, failure>>

-----------------------------------------------------------------------------
(* Attribute texts and their decoding (decode_and_unescape_value).          *)

Sentinel == "HKCategoryTypeIdentifierMindfulSession"
SentinelEsc == "HKCategoryTypeIdentifier&#77;indfulSession"
StepCount == "HKQuantityTypeIdentifierStepCount"

\* decode_and_unescape_value on the attribute texts of the model: a character
\* reference or predefined entity is replaced by its character, an unknown
\* entity is an error, a text without '&' is returned as it is.
Unescape(raw) ==
    CASE raw = SentinelEsc -> [ok |-> TRUE, val |-> Sentinel]
      [] raw = "Insight &amp; Timer" -> [ok |-> TRUE, val |-> "Insight & Timer"]
      [] raw = "Calm &bogus;" -> [ok |-> FALSE, val |-> ""]
      [] OTHER -> [ok |-> TRUE, val |-> raw]

-----------------------------------------------------------------------------
(* Timestamps: "%Y-%m-%d %H:%M:%S %z".                                      *)

\* The timestamp texts of the model.
T0800 == "2024-01-01 08:00:00 +0000"
T080030 == "2024-01-01 08:00:30 +0000"
T080530 == "2024-01-01 08:05:30 +0000"
T0800p2 == "2024-01-01 08:00:00 +0200"
T070030 == "2024-01-01 07:00:30 +0000"
T0930m1 == "2024-01-01 09:30:00 -0130"
TLeap == "2024-02-29 23:59:59 +0000"
TMar == "2024-03-01 00:00:10 +0530"
T1950 == "1950-01-01 00:00:00 +0000"
TNoLeap == "2023-02-29 08:00:00 +0000"
TMonth13 == "2024-13-01 08:00:00 +0000"
TIso == "2024-01-01T08:00:00Z"
TNoOffset == "2024-01-01 08:00:00"
TUnpadded == "2024-1-1 8:0:0 +0000"
TColonOffset == "2024-01-01 08:05:30 +00:00"

TimestampTexts ==
    {T0800, T080030, T080530, T0800p2, T070030, T0930m1, TLeap, TMar, T1950,
     TNoLeap, TMonth13, TIso, TNoOffset, TUnpadded, TColonOffset, ""}

\* The numeric fields chrono's scan of "%Y-%m-%d %H:%M:%S %z" reads out of a
\* text: <<year, month, day, hour, minute, second, offset sign, offset hours,
\* offset minutes>>, or <<>> when the scan fails. The scan takes a number of
\* fewer digits than the padded width and an offset written +HH:MM as well
\* as +HHMM; it fails on the empty text, on a 'T' or 'Z' where the format has
\* a space or an offset, and on a missing offset. Given for the texts of
\* TimestampTexts only.
Fields(s) ==
    CASE s = T0800 -> <<2024, 1, 1, 8, 0, 0, 1, 0, 0>>
      [] s = T080030 -> <<2024, 1, 1, 8, 0, 30, 1, 0, 0>>
      [] s = T080530 -> <<2024, 1, 1, 8, 5, 30, 1, 0, 0>>
      [] s = T0800p2 -> <<2024, 1, 1, 8, 0, 0, 1, 2, 0>>
      [] s = T070030 -> <<2024, 1, 1, 7, 0, 30, 1, 0, 0>>
      [] s = T0930m1 -> <<2024, 1, 1, 9, 30, 0, -1, 1, 30>>
      [] s = TLeap -> <<2024, 2, 29, 23, 59, 59, 1, 0, 0>>
      [] s = TMar -> <<2024, 3, 1, 0, 0, 10, 1, 5, 30>>
      [] s = T1950 -> <<1950, 1, 1, 0, 0, 0, 1, 0, 0>>
      [] s = TNoLeap -> <<2023, 2, 29, 8, 0, 0, 1, 0, 0>>
      [] s = TMonth13 -> <<2024, 13, 1, 8, 0, 0, 1, 0, 0>>
      [] s = TUnpadded -> <<2024, 1, 1, 8, 0, 0, 1, 0, 0>>
      [] s = TColonOffset -> <<2024, 1, 1, 8, 5, 30, 1, 0, 0>>
      [] s \in {TIso, TNoOffset, ""} -> <<>>

IsLeapYear(y) == (y % 4 = 0 /\ y % 100 # 0) \/ y % 400 = 0

DaysInMonth(y, m) ==
    IF m = 2 THEN (IF IsLeapYear(y) THEN 29 ELSE 28)
    ELSE IF m \in {4, 6, 9, 11} THEN 30 ELSE 31

\* Days from 1970-01-01 to the civil date y-m-d (proleptic Gregorian).
DaysFromCivil(y, m, d) ==
    LET yy == IF m <= 2 THEN y - 1 ELSE y
        era == yy \div 400
        yoe == yy - era * 400
        mp == IF m > 2 THEN m - 3 ELSE m + 9
        doy == (153 * mp + 2) \div 5 + d - 1
        doe == yoe * 365 + yoe \div 4 - yoe \div 100 + doy
    IN  era * 146097 + doe - 719468

\* The fields name a date and a time of day that exist, and an offset whose
\* minutes are below 60. (chrono also takes second 60, a leap second; no
\* text of the model has one.)
FieldsInRange(f) ==
    /\ f[2] \in 1..12
    /\ f[3] \in 1..DaysInMonth(f[1], f[2])
    /\ f[4] \in 0..23
    /\ f[5] \in 0..59
    /\ f[6] \in 0..59
    /\ f[9] \in 0..59

\* A date-time without zone, as chrono holds it: the day (counted from
\* 1970-01-01) and the second of that day.
Naive(days, secs) == [days |-> days, secs |-> secs]

\* chrono::NaiveDateTime::parse_from_str(s, "%Y-%m-%d %H:%M:%S %z"): the
\* offset is scanned and then dropped, the result is the local date-time.
ParseFromStr(s) ==
    LET f == Fields(s)
    IN  IF f = <<>> \/ ~FieldsInRange(f)
        THEN [ok |-> FALSE, naive |-> Naive(0, 0)]
        ELSE [ok |-> TRUE,
              naive |-> Naive(DaysFromCivil(f[1], f[2], f[3]),
                              f[4] * 3600 + f[5] * 60 + f[6])]

\* NaiveDateTime::and_utc: the local date-time is taken to be UTC as it is.
AndUtc(naive) == naive

\* `end_time - occurred_at`: the elapsed time as whole days plus 0..86399
\* seconds (the days negative when end_time is the earlier one).
Elapsed(end_time, occurred_at) ==
    LET d == end_time.days - occurred_at.days
        s == end_time.secs - occurred_at.secs
    IN  IF s < 0 THEN Naive(d - 1, s + 86400) ELSE Naive(d, s)

\* i32::try_from(delta.num_seconds()) succeeds: the elapsed seconds lie in
\* I32Min..I32Max (compared by days first, the product would not fit).
FitsI32(delta) ==
    /\ \/ delta.days < I32Max \div 86400
       \/ delta.days = I32Max \div 86400 /\ delta.secs <= I32Max % 86400
    /\ \/ delta.days > I32Min \div 86400
       \/ delta.days = I32Min \div 86400 /\ delta.secs >= I32Min % 86400

\* TimeDelta::num_seconds, for an elapsed time that fits i32.
NumSeconds(delta) == delta.days * 86400 + delta.secs

\* Rust's `/` and `%` on i32: the quotient truncates toward zero and the
\* remainder takes the sign of the dividend.
TruncDiv(a, b) == IF a >= 0 THEN a \div b ELSE -((-a) \div b)
TruncRem(a, b) == a - b * TruncDiv(a, b)

\* BloomRecord::new_from_user_data. tag "Panic": an `unwrap` of a parse error;
\* tag "Err": the TryFromIntError returned by `?`; tag "Ok": the record.
new_from_user_data(user_record) ==
    LET s == ParseFromStr(user_record.start)
        e == ParseFromStr(user_record.end)
        occurred_at == AndUtc(s.naive)
        end_time == AndUtc(e.naive)
        delta == Elapsed(end_time, occurred_at)
        none == [app_name |-> "", occurred_at |-> Naive(0, 0),
                 meditation_minutes |-> 0, dropped_seconds |-> 0]
    IN  IF ~s.ok \/ ~e.ok THEN [tag |-> "Panic", rec |-> none]
        ELSE IF ~FitsI32(delta) THEN [tag |-> "Err", rec |-> none]
        ELSE [tag |-> "Ok",
              rec |-> [app_name |-> user_record.app,
                       occurred_at |-> occurred_at,
                       meditation_minutes |-> TruncDiv(NumSeconds(delta), 60),
                       dropped_seconds |-> TruncRem(NumSeconds(delta), 60)]]

-----------------------------------------------------------------------------
(* The Record Filter: MindfulSession::new_from_element.                     *)

\* One item of element.attributes(): a key with its raw value, or the
\* iterator's error for an attribute that is not well formed (key "!").
Attr(k, v) == [key |-> k, raw |-> v]
AttrSyntaxError == Attr("!", "")

RECURSIVE AttrLoop(_, _, _)
\* The `for attr_result in element.attributes()` loop from item i on, acc
\* holding activity, app, start and end so far; an error ends it at once.
AttrLoop(attrs, i, acc) ==
    IF i > Len(attrs) THEN [acc EXCEPT !.ok = TRUE]
    ELSE LET a == attrs[i]
             v == Unescape(a.raw)
         IN  IF a.key = "!" THEN [acc EXCEPT !.ok = FALSE]
             ELSE IF a.key \notin {"type", "sourceName", "startDate", "endDate"}
             THEN AttrLoop(attrs, i + 1, acc)
             ELSE IF ~v.ok THEN [acc EXCEPT !.ok = FALSE]
             ELSE AttrLoop(attrs, i + 1,
                      CASE a.key = "type" -> [acc EXCEPT !.activity = v.val]
                        [] a.key = "sourceName" -> [acc EXCEPT !.app = v.val]
                        [] a.key = "startDate" -> [acc EXCEPT !.start = v.val]
                        [] a.key = "endDate" -> [acc EXCEPT !.end = v.val])

\* IsMindful without the comparison to the sentinel: any typed record passes.
IsMindfulAnyType(activity) == activity # ""

\* The activity type the filter keeps (main.rs:68).
IsMindful(activity) == activity = Sentinel

\* MindfulSession::new_from_element: "Err" (an attribute or escape error),
\* "None" (another activity type) or "Some" with the session.
new_from_element(attrs) ==
    LET r == AttrLoop(attrs, 1,
                 [ok |-> TRUE, activity |-> "", app |-> "", start |-> "", end |-> ""])
        session == [app |-> r.app, start |-> r.start, end |-> r.end]
    IN  IF ~r.ok THEN [tag |-> "Err", session |-> session]
        ELSE IF ~IsMindful(r.activity) THEN [tag |-> "None", session |-> session]
        ELSE [tag |-> "Some", session |-> session]

\* A structural event of the document: "Empty" (self-closing element),
\* "Start" (opening tag) or "Malformed" (markup read_event_into rejects).
Ev(kind, name, attrs) == [kind |-> kind, name |-> name, attrs |-> attrs]

\* The element the scan loop hands to new_from_element (main.rs:182-183).
IsRecordElement(ev) == ev.kind = "Empty" /\ ev.name = "Record"

\* The events documents are built from.
Events ==
    { Ev("Empty", "Record",
         <<Attr("type", Sentinel), Attr("sourceName", "Calm"),
           Attr("creationDate", "Calm &bogus;"),
           Attr("startDate", T0800), Attr("endDate", T080530)>>),
      Ev("Empty", "Record",
         <<Attr("sourceName", "Headspace"), Attr("startDate", T0800),
           Attr("endDate", T080030), Attr("type", Sentinel)>>),
      Ev("Empty", "Record",
         <<Attr("type", SentinelEsc), Attr("sourceName", "Insight &amp; Timer"),
           Attr("startDate", T080530), Attr("endDate", T0800)>>),
      Ev("Empty", "Record",
         <<Attr("type", Sentinel), Attr("sourceName", "Headspace"),
           Attr("startDate", T0800p2), Attr("endDate", T070030)>>),
      Ev("Empty", "Record",
         <<Attr("type", StepCount), Attr("sourceName", "Watch"),
           Attr("startDate", T0800), Attr("endDate", T080530)>>),
      Ev("Empty", "Record",
         <<Attr("sourceName", "Calm"), Attr("startDate", T0800),
           Attr("endDate", T080530)>>),
      Ev("Empty", "MetadataEntry",
         <<Attr("type", Sentinel), Attr("sourceName", "Calm"),
           Attr("startDate", T0800), Attr("endDate", T080530)>>),
      Ev("Start", "Record",
         <<Attr("type", Sentinel), Attr("sourceName", "Calm"),
           Attr("startDate", T0800), Attr("endDate", T080530)>>),
      Ev("Empty", "Record",
         <<Attr("type", Sentinel), Attr("endDate", T080530)>>),
      Ev("Empty", "Record",
         <<Attr("type", Sentinel), Attr("sourceName", "Calm"),
           Attr("startDate", T1950), Attr("endDate", T0800)>>),
      Ev("Empty", "Record",
         <<Attr("type", StepCount), Attr("sourceName", "Calm &bogus;")>>),
      Ev("Empty", "Record",
         <<Attr("type", Sentinel), Attr("sourceName", "Calm"), AttrSyntaxError>>),
      Ev("Empty", "Record",
         <<Attr("type", Sentinel), Attr("sourceName", "Calm"),
           Attr("startDate", TUnpadded), Attr("endDate", TColonOffset)>>),
      Ev("Empty", "Record",
         <<Attr("type", Sentinel), Attr("sourceName", "Headspace"),
           Attr("startDate", T0800), Attr("endDate", TIso)>>),
      Ev("Malformed", "", <<>>) }

Documents == UNION { [1..n -> Events] : n \in 0..MaxLen }

-----------------------------------------------------------------------------
(* The Tabular Writer and the Aggregator.                                   *)

\* The header the csv writer derives from BloomRecord's serde names.
Header == <<"App Name", "Start Time", "Duration", "Dropped Seconds">>

\* wtr.serialize(record): the record's fields in declaration order.
Row(record) ==
    <<record.app_name, record.occurred_at, record.meditation_minutes,
      record.dropped_seconds>>

\* Skipped passing over every record that is not positive.
SkippedNonPositive(record) == record.meditation_minutes <= 0

\* The records write_csv passes over (main.rs:130).
Skipped(record) == record.meditation_minutes = 0

\* The name save_file_dialog returns when the user picks a file.
OutName == "bloom-data-ah.csv"

HeaderLine == [kind |-> "header", cells |-> Header]
RowLine(record) == [kind |-> "row", cells |-> Row(record)]

\* The lines one wtr.serialize call adds: the writer puts the header before
\* the first record it serializes.
Serialize(lines, record) ==
    IF lines = <<>> THEN <<HeaderLine, RowLine(record)>>
    ELSE Append(lines, RowLine(record))

RECURSIVE CountOf(_, _)
\* The value stats_hash holds for app after the counting loop.
CountOf(data, app) ==
    IF data = <<>> THEN 0
    ELSE (IF data[1].app_name = app THEN 1 ELSE 0) + CountOf(Tail(data), app)

AppsOf(data) == { data[i].app_name : i \in 1..Len(data) }

\* The orders stats_hash.iter() may yield the keys in.
IterOrders(apps) ==
    { o \in [1..Cardinality(apps) -> apps] :
        \A i, j \in 1..Cardinality(apps) : i # j => o[i] # o[j] }

\* The comparison of sort_by(|a, b| a.1.cmp(b.1)): a does not sort after b.
NotAfter(a, b) == a[2] <= b[2]

RECURSIVE Insert(_, _)
\* x put into the sorted sequence s behind every element it does not sort
\* before (a stable insertion).
Insert(x, s) ==
    IF s = <<>> THEN <<x>>
    ELSE IF NotAfter(s[1], x) THEN <<s[1]>> \o Insert(x, Tail(s))
    ELSE <<x>> \o s

RECURSIVE SortBy(_)
\* slice::sort_by: a stable sort.
SortBy(s) ==
    IF s = <<>> THEN <<>>
    ELSE Insert(s[Len(s)], SortBy(SubSeq(s, 1, Len(s) - 1)))

\* One line of the summary: app, total and the noun.
StatLine(pair) == <<pair[1], pair[2], IF pair[2] = 1 THEN "entry" ELSE "entries">>

\* calculate_stats, with the keys of stats_hash iterated in the order `order`.
calculate_stats(data, order) ==
    LET pairs == [i \in 1..Len(order) |-> <<order[i], CountOf(data, order[i])>>]
        sorted == SortBy(pairs)
    IN  [i \in 1..Len(sorted) |-> StatLine(sorted[i])]

-----------------------------------------------------------------------------
(* The run: main and apple_health.                                          *)

Init ==
    /\ pc = "confirm"
    /\ doc = <<>>
    /\ pos = 1
    /\ eof = FALSE
    /\ user_data = <<>>
    /\ ridx = 1
    /\ bloom_data = <<>>
    /\ saveRequested = FALSE
    /\ filename = ""
    /\ fileCreated = FALSE
    /\ csv = <<>>
    /\ widx = 1
    /\ stats = <<>>
    /\ notice = "none"
    /\ failure = "none"

\* main.rs:245-259: the confirmation box; No ends the run.
Confirm ==
    /\ pc = "confirm"
    /\ \E proceed \in BOOLEAN :
         IF proceed
         THEN pc' = "choose_input" /\ notice' = notice
         ELSE pc' = "done" /\ notice' = "cancelled"
    /\ UNCHANGED <<doc, pos, eof, user_data, ridx, bloom_data, saveRequested,
                   filename, fileCreated, csv, widx, stats, failure>>

\* main.rs:261-275: the open-file dialog, cancelled.
ChooseInputCancel ==
    /\ pc = "choose_input"
    /\ pc' = "done"
    /\ notice' = "cancelled"
    /\ UNCHANGED <<doc, pos, eof, user_data, ridx, bloom_data, saveRequested,
                   filename, fileCreated, csv, widx, stats, failure>>

\* main.rs:261-277: the open-file dialog names a file holding document d.
ChooseInput ==
    /\ pc = "choose_input"
    /\ \E d \in Documents : doc' = d
    /\ pc' = "open"
    /\ UNCHANGED <<pos, eof, user_data, ridx, bloom_data, saveRequested, filename,
                   fileCreated, csv, widx, stats, notice, failure>>

\* main.rs:277-283: apple_health returned Err, main shows the error box.
ReturnErr(kind) ==
    /\ pc' = "done"
    /\ notice' = "error"
    /\ failure' = kind

\* An `unwrap` of an Err: the panic ends the run with no message box.
Panic(kind) ==
    /\ pc' = "panicked"
    /\ notice' = notice
    /\ failure' = kind

\* main.rs:171: Reader::from_file(file)?
OpenFile ==
    /\ pc = "open"
    /\ \E ok \in BOOLEAN :
         IF ok
         THEN pc' = "scan" /\ UNCHANGED <<notice, failure>>
         ELSE ReturnErr("IoError")
    /\ UNCHANGED <<doc, pos, eof, user_data, ridx, bloom_data, saveRequested,
                   filename, fileCreated, csv, widx, stats>>

\* ScanStep leaving the loop at the first session it finds, the rest of the
\* document unread.
ScanStepBreak ==
    /\ pc = "scan"
    /\ \/ /\ pos > Len(doc)
          /\ eof' = TRUE
          /\ pc' = "resolve"
          /\ UNCHANGED <<pos, user_data, notice, failure>>
       \/ /\ pos <= Len(doc)
          /\ doc[pos].kind = "Malformed"
          /\ ReturnErr("ParseError")
          /\ UNCHANGED <<pos, eof, user_data>>
       \/ /\ pos <= Len(doc)
          /\ doc[pos].kind # "Malformed"
          /\ ~IsRecordElement(doc[pos])
          /\ pos' = pos + 1
          /\ UNCHANGED <<pc, eof, user_data, notice, failure>>
       \/ /\ pos <= Len(doc)
          /\ IsRecordElement(doc[pos])
          /\ LET r == new_from_element(doc[pos].attrs)
             IN  CASE r.tag = "Err" ->
                        /\ Panic("AttrError")
                        /\ UNCHANGED <<pos, eof, user_data>>
                   [] r.tag = "None" ->
                        /\ pos' = pos + 1
                        /\ UNCHANGED <<pc, eof, user_data, notice, failure>>
                   [] r.tag = "Some" ->
                        /\ pos' = pos + 1
                        /\ user_data' = Append(user_data, r.session)
                        /\ pc' = "resolve"
                        /\ UNCHANGED <<eof, notice, failure>>
    /\ UNCHANGED <<doc, ridx, bloom_data, saveRequested, filename, fileCreated,
                   csv, widx, stats>>

\* main.rs:178-197: one turn of the scan loop.
ScanStep ==
    /\ pc = "scan"
    /\ \/ /\ pos > Len(doc)
          /\ eof' = TRUE
          /\ pc' = "resolve"
          /\ UNCHANGED <<pos, user_data, notice, failure>>
       \/ /\ pos <= Len(doc)
          /\ doc[pos].kind = "Malformed"
          /\ ReturnErr("ParseError")
          /\ UNCHANGED <<pos, eof, user_data>>
       \/ /\ pos <= Len(doc)
          /\ doc[pos].kind # "Malformed"
          /\ ~IsRecordElement(doc[pos])
          /\ pos' = pos + 1
          /\ UNCHANGED <<pc, eof, user_data, notice, failure>>
       \/ /\ pos <= Len(doc)
          /\ IsRecordElement(doc[pos])
          /\ LET r == new_from_element(doc[pos].attrs)
             IN  CASE r.tag = "Err" ->
                        /\ Panic("AttrError")
                        /\ UNCHANGED <<pos, eof, user_data>>
                   [] r.tag = "None" ->
                        /\ pos' = pos + 1
                        /\ UNCHANGED <<pc, eof, user_data, notice, failure>>
                   [] r.tag = "Some" ->
                        /\ pos' = pos + 1
                        /\ user_data' = Append(user_data, r.session)
                        /\ UNCHANGED <<pc, eof, notice, failure>>
    /\ UNCHANGED <<doc, ridx, bloom_data, saveRequested, filename, fileCreated,
                   csv, widx, stats>>

\* main.rs:199-201: one turn of `for record in user_data`.
ResolveStep ==
    /\ pc = "resolve"
    /\ \/ /\ ridx > Len(user_data)
          /\ pc' = "check_empty"
          /\ UNCHANGED <<ridx, bloom_data, notice, failure>>
       \/ /\ ridx <= Len(user_data)
          /\ LET r == new_from_user_data(user_data[ridx])
             IN  CASE r.tag = "Panic" ->
                        /\ Panic("FormatError")
                        /\ UNCHANGED <<ridx, bloom_data>>
                   [] r.tag = "Err" ->
                        /\ Panic("RangeError")
                        /\ UNCHANGED <<ridx, bloom_data>>
                   [] r.tag = "Ok" ->
                        /\ bloom_data' = Append(bloom_data, r.rec)
                        /\ ridx' = ridx + 1
                        /\ UNCHANGED <<pc, notice, failure>>
    /\ UNCHANGED <<doc, pos, eof, user_data, saveRequested, filename, fileCreated,
                   csv, widx, stats>>

\* CheckEmpty without the early return: the warning is shown and the run
\* goes on to write_csv.
CheckEmptyNoReturn ==
    /\ pc = "check_empty"
    /\ pc' = "save_dialog"
    /\ notice' = IF Len(bloom_data) = 0 THEN "empty" ELSE notice
    /\ UNCHANGED <<doc, pos, eof, user_data, ridx, bloom_data, saveRequested,
                   filename, fileCreated, csv, widx, stats, failure>>

\* main.rs:203-210: no record, the warning box, return Ok(()).
CheckEmpty ==
    /\ pc = "check_empty"
    /\ IF Len(bloom_data) = 0
       THEN pc' = "done" /\ notice' = "empty"
       ELSE pc' = "save_dialog" /\ notice' = notice
    /\ UNCHANGED <<doc, pos, eof, user_data, ridx, bloom_data, saveRequested,
                   filename, fileCreated, csv, widx, stats, failure>>

\* main.rs:119-127: the save dialog of write_csv; cancelled, write_csv
\* returns "abort".
SaveDialog ==
    /\ pc = "save_dialog"
    /\ saveRequested' = TRUE
    /\ \E chosen \in BOOLEAN :
         IF chosen
         THEN pc' = "from_path" /\ filename' = filename
         ELSE pc' = "stats" /\ filename' = "abort"
    /\ UNCHANGED <<doc, pos, eof, user_data, ridx, bloom_data, fileCreated, csv,
                   widx, stats, notice, failure>>

\* main.rs:128: WriterBuilder::from_path(&filename)?, unwrapped at 218.
FromPath ==
    /\ pc = "from_path"
    /\ \E ok \in BOOLEAN :
         IF ok
         THEN /\ fileCreated' = TRUE
              /\ pc' = "write_rows"
              /\ UNCHANGED <<notice, failure>>
         ELSE /\ Panic("IoError")
              /\ UNCHANGED fileCreated
    /\ UNCHANGED <<doc, pos, eof, user_data, ridx, bloom_data, saveRequested,
                   filename, csv, widx, stats>>

\* main.rs:129-134: one turn of `for record in bloom_data`.
WriteRow ==
    /\ pc = "write_rows"
    /\ \/ /\ widx > Len(bloom_data)
          /\ pc' = "flush"
          /\ UNCHANGED <<csv, widx, notice, failure>>
       \/ /\ widx <= Len(bloom_data)
          /\ Skipped(bloom_data[widx])
          /\ widx' = widx + 1
          /\ UNCHANGED <<pc, csv, notice, failure>>
       \/ /\ widx <= Len(bloom_data)
          /\ ~Skipped(bloom_data[widx])
          /\ csv' = Serialize(csv, bloom_data[widx])
          /\ widx' = widx + 1
          /\ UNCHANGED <<pc, notice, failure>>
       \/ /\ widx <= Len(bloom_data)
          /\ ~Skipped(bloom_data[widx])
          /\ Panic("IoError")
          /\ UNCHANGED <<csv, widx>>
    /\ UNCHANGED <<doc, pos, eof, user_data, ridx, bloom_data, saveRequested,
                   filename, fileCreated, stats>>

\* main.rs:135-137: wtr.flush()?, then write_csv returns the file name.
Flush ==
    /\ pc = "flush"
    /\ \E ok \in BOOLEAN :
         IF ok
         THEN /\ filename' = OutName
              /\ pc' = "stats"
              /\ UNCHANGED <<notice, failure>>
         ELSE /\ Panic("IoError")
              /\ UNCHANGED filename
    /\ UNCHANGED <<doc, pos, eof, user_data, ridx, bloom_data, saveRequested,
                   fileCreated, csv, widx, stats>>

\* main.rs:219: calculate_stats(bloom_data).
CalculateStats ==
    /\ pc = "stats"
    /\ \E order \in IterOrders(AppsOf(bloom_data)) :
         stats' = calculate_stats(bloom_data, order)
    /\ pc' = "report"
    /\ UNCHANGED <<doc, pos, eof, user_data, ridx, bloom_data, saveRequested,
                   filename, fileCreated, csv, widx, notice, failure>>

\* main.rs:221-240: the closing box of apple_health.
Report ==
    /\ pc = "report"
    /\ notice' = IF filename = "abort" THEN "cancelled" ELSE "success"
    /\ pc' = "done"
    /\ UNCHANGED <<doc, pos, eof, user_data, ridx, bloom_data, saveRequested,
                   filename, fileCreated, csv, widx, stats, failure>>

Next ==
    \/ Confirm
    \/ ChooseInputCancel
    \/ ChooseInput
    \/ OpenFile
    \/ ScanStep
    \/ ResolveStep
    \/ CheckEmpty
    \/ SaveDialog
    \/ FromPath
    \/ WriteRow
    \/ Flush
    \/ CalculateStats
    \/ Report

Spec == Init /\ [][Next]_vars

-----------------------------------------------------------------------------
(* The Duration Resolver alone: one raw record with any two of the          *)
(* timestamp texts, resolved by the loop of apple_health.                   *)

InitResolver ==
    /\ pc = "resolve"
    /\ doc = <<>>
    /\ pos = 1
    /\ eof = TRUE
    /\ \E s \in TimestampTexts, e \in TimestampTexts :
         user_data = <<[app |-> "Calm", start |-> s, end |-> e]>>
    /\ ridx = 1
    /\ bloom_data = <<>>
    /\ saveRequested = FALSE
    /\ filename = ""
    /\ fileCreated = FALSE
    /\ csv = <<>>
    /\ widx = 1
    /\ stats = <<>>
    /\ notice = "none"
    /\ failure = "none"

NextResolver == ResolveStep

SpecResolver == InitResolver /\ [][NextResolver]_vars

-----------------------------------------------------------------------------
(* What the specification says of timestamps.                               *)

\* The texts written in the fixed format of the specification: four-digit
\* year, two-digit month, day, hour, minute and second, a sign and four
\* digits of offset, separated as in YYYY-MM-DD HH:MM:SS +HHMM.
FixedFormatTexts ==
    {T0800, T080030, T080530, T0800p2, T070030, T0930m1, TLeap, TMar, T1950,
     TNoLeap, TMonth13}

\* The text has the fixed format and names an existing date and time.
MatchesFormat(s) == s \in FixedFormatTexts /\ FieldsInRange(Fields(s))

\* The UTC offset the text carries, in seconds east of UTC.
OffsetSeconds(s) == Fields(s)[7] * (Fields(s)[8] * 3600 + Fields(s)[9] * 60)

\* The instant a well-formed text denotes, in UTC: local time minus offset.
UtcInstant(s) ==
    LET f == Fields(s)
        t == f[4] * 3600 + f[5] * 60 + f[6] - OffsetSeconds(s)
    IN  Naive(DaysFromCivil(f[1], f[2], f[3]) + t \div 86400, t % 86400)

\* end - start between the instants of a raw record.
TrueElapsed(u) == Elapsed(UtcInstant(u.end), UtcInstant(u.start))

\* The indices of the resolved records: bloom_data[i] comes from user_data[i].
Resolved == 1..Len(bloom_data)

\* C2: for every well-formed (start, end) with end >= start whose elapsed
\* seconds fit i32, the resolved record has meditation_minutes >= 0,
\* 0 <= dropped_seconds < 60 and minutes * 60 + dropped = end - start.
C2_MinutesAndRemainder ==
    \A i \in Resolved :
        LET u == user_data[i]
            b == bloom_data[i]
        IN  (MatchesFormat(u.start) /\ MatchesFormat(u.end)
             /\ TrueElapsed(u).days >= 0 /\ FitsI32(TrueElapsed(u)))
            => /\ b.meditation_minutes >= 0
               /\ b.dropped_seconds >= 0
               /\ b.dropped_seconds < 60
               /\ b.meditation_minutes * 60 + b.dropped_seconds
                    = NumSeconds(TrueElapsed(u))

\* C3: the elapsed seconds are the difference of the two UTC-normalized
\* instants, (end_local - end_offset) - (start_local - start_offset), and
\* occurred_at is the start instant in UTC, whatever the offsets.
C3_UtcNormalized ==
    \A i \in Resolved :
        LET u == user_data[i]
            b == bloom_data[i]
        IN  /\ b.occurred_at = UtcInstant(u.start)
            /\ FitsI32(TrueElapsed(u))
                 => b.meditation_minutes * 60 + b.dropped_seconds
                      = NumSeconds(TrueElapsed(u))

\* What the resolver does compute: the identity of C2 on the difference of
\* the two local date-times, the offsets dropped.
ResolverOnLocalTime ==
    \A i \in Resolved :
        LET u == user_data[i]
            b == bloom_data[i]
            d == Elapsed(ParseFromStr(u.end).naive, ParseFromStr(u.start).naive)
        IN  /\ b.meditation_minutes * 60 + b.dropped_seconds = NumSeconds(d)
            /\ d.days >= 0 => b.meditation_minutes >= 0 /\ b.dropped_seconds \in 0..59
            /\ OffsetSeconds(u.start) = OffsetSeconds(u.end)
                 => NumSeconds(d) = NumSeconds(TrueElapsed(u))

-----------------------------------------------------------------------------
(* The Record Filter.                                                       *)

\* The decoded value of attribute key, the empty string when it is absent.
AttrText(attrs, key) ==
    IF \E i \in 1..Len(attrs) : attrs[i].key = key
    THEN Unescape(attrs[CHOOSE i \in 1..Len(attrs) : attrs[i].key = key].raw).val
    ELSE ""

Matching(ev) ==
    /\ ev.kind = "Empty"
    /\ ev.name = "Record"
    /\ AttrText(ev.attrs, "type") = "HKCategoryTypeIdentifierMindfulSession"

ExpectedSessions(events) ==
    LET m == SelectSeq(events, Matching)
    IN  [i \in 1..Len(m) |->
            [app |-> AttrText(m[i].attrs, "sourceName"),
             start |-> AttrText(m[i].attrs, "startDate"),
             end |-> AttrText(m[i].attrs, "endDate")]]

\* C1: the filter's output is the document-order subsequence of the
\* self-closing Record elements whose decoded type is the sentinel, each as
\* (sourceName, startDate, endDate) with an absent attribute as ""; no other
\* element contributes. It holds of every prefix scanned and, at
\* end-of-stream, of the whole document.
C1_FilterOutput ==
    /\ user_data = ExpectedSessions(SubSeq(doc, 1, pos - 1))
    /\ eof => pos = Len(doc) + 1

C1_Witness ==
    /\ eof
    /\ Len(user_data) < Len(doc)
    /\ \E i \in 1..Len(user_data) : user_data[i].app = "" /\ user_data[i].start = ""
    /\ \E i \in 1..Len(user_data) : user_data[i].app = "Insight & Timer"
    /\ \E i \in 1..Len(doc) : doc[i].kind = "Start"

-----------------------------------------------------------------------------
(* The Tabular Writer.                                                      *)

IsRow(line) == line.kind = "row"
NonZero(record) == record.meditation_minutes # 0

ExpectedRows(data) ==
    LET kept == SelectSeq(data, NonZero)
    IN  [i \in 1..Len(kept) |-> Row(kept[i])]

DataRows(lines) ==
    LET rows == SelectSeq(lines, IsRow)
    IN  [i \in 1..Len(rows) |-> rows[i].cells]

\* write_csv has returned the name of the file it wrote.
WriteCompleted == filename = OutName

\* C4: the data rows of a completed output are exactly the records with
\* meditation_minutes # 0 in their original order, the negative ones
\* included, and no record with meditation_minutes = 0.
C4_RowsAreNonZeroRecords ==
    WriteCompleted => DataRows(csv) = ExpectedRows(bloom_data)

C4_Witness ==
    /\ WriteCompleted
    /\ \E i \in Resolved : bloom_data[i].meditation_minutes < 0
    /\ \E i \in Resolved : bloom_data[i].meditation_minutes = 0
    /\ \E i \in Resolved : bloom_data[i].meditation_minutes > 0
    /\ Len(DataRows(csv)) = 2

\* C10: every output the writer completes holds the header row App Name,
\* Start Time, Duration, Dropped Seconds, also when every record has
\* meditation_minutes = 0 and no data row is written.
C10_HeaderAlways ==
    WriteCompleted =>
        /\ csv # <<>>
        /\ csv[1].kind = "header"
        /\ csv[1].cells = <<"App Name", "Start Time", "Duration", "Dropped Seconds">>

\* What the writer does: the header is the first line of every output that
\* has a data row, and an output without data rows is empty.
HeaderWithRows ==
    WriteCompleted =>
        IF ExpectedRows(bloom_data) = <<>> THEN csv = <<>>
        ELSE csv[1] = HeaderLine /\ Len(csv) = Len(ExpectedRows(bloom_data)) + 1

-----------------------------------------------------------------------------
(* The Aggregator.                                                          *)

Occurrences(data, app) == Cardinality({ i \in 1..Len(data) : data[i].app_name = app })

FirstSeen(data, app) ==
    CHOOSE i \in 1..Len(data) :
        /\ data[i].app_name = app
        /\ \A j \in 1..(i - 1) : data[j].app_name # app

\* Each distinct app once, with its number of occurrences and the noun that
\* goes with it, in ascending order of count.
SummaryAscending ==
    /\ Len(stats) = Cardinality(AppsOf(bloom_data))
    /\ { stats[i][1] : i \in 1..Len(stats) } = AppsOf(bloom_data)
    /\ \A i \in 1..Len(stats) :
          /\ stats[i][2] = Occurrences(bloom_data, stats[i][1])
          /\ stats[i][3] = IF stats[i][2] = 1 THEN "entry" ELSE "entries"
    /\ \A i, j \in 1..Len(stats) : i < j => stats[i][2] <= stats[j][2]

\* Apps with equal counts stand in the order of their first occurrence.
TiesInFirstSeenOrder ==
    \A i, j \in 1..Len(stats) :
        (i < j /\ stats[i][2] = stats[j][2])
        => FirstSeen(bloom_data, stats[i][1]) < FirstSeen(bloom_data, stats[j][1])

\* calculate_stats has run.
StatsDone == pc = "report" \/ (pc = "done" /\ notice \in {"success", "cancelled"} /\ eof)

\* C5: the summary lists each distinct app once with its count, ascending
\* by count, and apps of equal count in the order of their first occurrence.
C5_FirstSeenTies ==
    StatsDone => SummaryAscending /\ TiesInFirstSeenOrder

\* What the aggregator does keep: each distinct app once with its count,
\* ascending by count, whatever order the hash map yields its keys in.
AscendingCounts ==
    StatsDone => SummaryAscending

-----------------------------------------------------------------------------
(* The run as a whole.                                                      *)

\* C6: a document scanned to its end with no matching element ends in the
\* EmptyResult outcome with an empty summary; the save dialog is never
\* shown, no file is created and nothing is written.
C6_EmptyResult ==
    (eof /\ user_data = <<>>) =>
        /\ pc \in {"resolve", "check_empty", "done"}
        /\ pc = "done" => notice = "empty"
        /\ notice \in {"none", "empty"}
        /\ failure = "none"
        /\ stats = <<>>
        /\ ~saveRequested
        /\ ~fileCreated
        /\ csv = <<>>
        /\ filename = ""

C6_Witness ==
    /\ pc = "done"
    /\ notice = "empty"
    /\ Len(doc) >= 2
    /\ \E i \in 1..Len(doc) : IsRecordElement(doc[i])

\* The raw records whose start or end text does not match the format.
BadTimestamp(i) == ~MatchesFormat(user_data[i].start) \/ ~MatchesFormat(user_data[i].end)

\* The raw records whose start or end text parse_from_str rejects.
RejectedTimestamp(i) ==
    ~ParseFromStr(user_data[i].start).ok \/ ~ParseFromStr(user_data[i].end).ok

\* The run is fatal at raw record i: the record is neither resolved nor
\* passed over, nothing is written, no summary is made and the run never
\* reaches the success outcome.
FatalAt(i) ==
    /\ ridx <= i
    /\ Len(bloom_data) < i
    /\ pc \in {"scan", "resolve", "panicked", "done"}
    /\ pc = "done" => notice = "error"
    /\ notice \in {"none", "error"}
    /\ (pc = "panicked" /\ eof /\ ridx = i) => failure = "FormatError"
    /\ stats = <<>>
    /\ ~saveRequested
    /\ ~fileCreated
    /\ csv = <<>>

\* C7: a matching record whose start or end does not match the fixed format
\* (an absent one included) is fatal for the whole run: the record is not
\* passed over, nothing is written, no summary is made and the run never
\* reaches the success outcome.
C7_FormatErrorFatal ==
    \A i \in 1..Len(user_data) : BadTimestamp(i) => FatalAt(i)

\* What the run does: it is fatal at every record with a text the parser
\* rejects, the start or the end.
RejectedTimestampFatal ==
    \A i \in 1..Len(user_data) : RejectedTimestamp(i) => FatalAt(i)

\* C8: every fatal condition reaches the top-level caller as an error value
\* and ends the run with the error notification.
C8_EveryFailureNotified ==
    failure # "none" => pc = "done" /\ notice = "error"

\* C9: the document is read to end-of-stream before any record is
\* resolved, every raw record is resolved before the save dialog, the
\* writing or the aggregation begins, and no scan or resolution failure
\* follows a written row.
C9_PhaseOrder ==
    /\ (pc \in {"resolve", "check_empty"} \/ ridx > 1 \/ bloom_data # <<>>)
         => eof /\ pos = Len(doc) + 1
    /\ (pc \in {"save_dialog", "from_path", "write_rows", "flush", "stats", "report"}
        \/ saveRequested \/ fileCreated \/ csv # <<>> \/ stats # <<>> \/ widx > 1)
         => /\ eof
            /\ ridx = Len(user_data) + 1
            /\ Len(bloom_data) = Len(user_data)
    /\ csv # <<>> => failure \in {"none", "IoError"}
    /\ ~eof => pc \in {"confirm", "choose_input", "open", "scan", "done", "panicked"}

C9_Witness ==
    /\ pc = "done"
    /\ notice = "success"
    /\ Len(csv) >= 3
    /\ Len(user_data) < Len(doc)

====
